---- MODULE Spec2Model ----
\* Model of Basics/paramRayTune.py: the driver main(), the trainable
\* train_cifar() and the points at which it calls into the tuning library
\* (tune.checkpoint_dir, tune.report, the ASHA scheduler's decision on each
\* report, get_best_trial).  Numerics are abstracted: the network's parameters
\* are the number of training passes applied to them, a validation loss is an
\* arbitrary value of 1..MaxLoss.
EXTENDS Integers, Sequences, FiniteSets

\* ------------------------------------------------------------ bounds
MaxSamples == 2          \* largest num_samples given to main under Spec
SearchMaxEpochs == 3     \* largest max_num_epochs given to main under Spec
MaxNumEpochs == 11       \* largest max_num_epochs given to main under SpecTrial
MaxResumes == 1          \* pause/resume cycles of a trial under SpecTrial
MaxLoss == 2             \* validation losses are drawn from 1..MaxLoss

\* ------------------------------------------------------------ program constants
Epochs == 10             \* for epoch in range(10)
grace_period == 1        \* ASHAScheduler(grace_period=1)

VARIABLES
    mainpc,          \* position of main(): "start", "tune", "selected", "done",
                     \* or "failed" when an exception ended it
    num_samples,     \* main's argument
    max_num_epochs,  \* main's argument, the scheduler's max_t
    dataReady,       \* the dataset files exist under data_dir
    dataWrites,      \* who has written under data_dir: 0 is the driver, t a trial
    config,          \* config[t]: the trial's sampled configuration
    pc,              \* pc[t]: position of trial t's train_cifar call
    checkpoint_dir,  \* checkpoint_dir[t]: train_cifar's argument (NoDir: None)
    epoch,           \* epoch[t]: the loop variable of train_cifar
    steps,           \* steps[t]: training passes applied to the trial's net
    val_loss,        \* val_loss[t]: the loss of the last validation pass
    reports,         \* reports[t]: the results tune.report has received, in
                     \* order: the epoch and the parameters each came from
    last_result,     \* last_result[t]: the loss of the trial's last result
    ckpt,            \* ckpt[d]: the file "checkpoint" under directory d
    ckptLog,         \* every torch.save so far: who wrote which directory
    latest,          \* latest[t]: the trial's last checkpoint directory
    runs,            \* runs[t]: calls of train_cifar made for trial t
    splits,          \* splits[t]: calls of random_split made by trial t
    saves,           \* saves[t]: calls of torch.save made by trial t
    earlyStopped,    \* earlyStopped[t]: the scheduler stopped t below max_t
    resumes,         \* pause/resume cycles so far
    best_trial,      \* main's best_trial (0: not selected yet)
    best_model       \* steps of the state main loaded into best_trained_model

vars == <<mainpc, num_samples, max_num_epochs, dataReady, dataWrites, config,
          pc, checkpoint_dir, epoch, steps, val_loss, reports, last_result, ckpt,
          ckptLog,
          latest, runs, splits, saves, earlyStopped, resumes, best_trial,
          best_model>>

argVars == <<num_samples, max_num_epochs>>
selVars == <<best_trial, best_model>>
dataVars == <<dataReady, dataWrites>>
ckptVars == <<ckpt, ckptLog, latest, saves>>

\* ------------------------------------------------------------ helpers
Trials == 1..num_samples
AllTrials == 1..MaxSamples
EpochRange == 0..(Epochs - 1)
Losses == 1..MaxLoss

\* A checkpoint directory: tune.checkpoint_dir(step) names a directory of the
\* calling trial, one per step.
Dirs == AllTrials \X EpochRange
NoDir == <<0, 0>>
NoFile == [run |-> 0, steps |-> 0]
NoConfig == [l1 |-> 0, l2 |-> 0, lr |-> 0, batch_size |-> 0]

\* A configuration sampled before the search is modelled: Net's own defaults
\* are not powers of two, so the smallest point of the search space stands in.
SampledConfig == [l1 |-> 4, l2 |-> 4, lr |-> 1, batch_size |-> 2]

\* training_iteration: the number of results the trial has reported
Iter(t) == Len(reports[t])

Terminal == {"finished", "terminated", "failed"}

\* ------------------------------------------------------------ initial states
InitWith(samples, budgets, configs) ==
    /\ mainpc = "start"
    /\ num_samples \in samples
    /\ max_num_epochs \in budgets
    /\ dataReady = FALSE
    /\ dataWrites = {}
    /\ config \in [1..num_samples -> configs]
    /\ pc = [t \in 1..num_samples |-> "pending"]
    /\ checkpoint_dir = [t \in 1..num_samples |-> NoDir]
    /\ epoch = [t \in 1..num_samples |-> 0]
    /\ steps = [t \in 1..num_samples |-> 0]
    /\ val_loss = [t \in 1..num_samples |-> 0]
    /\ reports = [t \in 1..num_samples |-> <<>>]
    /\ last_result = [t \in 1..num_samples |-> 0]
    /\ ckpt = [d \in Dirs |-> NoFile]
    /\ ckptLog = {}
    /\ latest = [t \in 1..num_samples |-> NoDir]
    /\ runs = [t \in 1..num_samples |-> 0]
    /\ splits = [t \in 1..num_samples |-> 0]
    /\ saves = [t \in 1..num_samples |-> 0]
    /\ earlyStopped = [t \in 1..num_samples |-> FALSE]
    /\ resumes = 0
    /\ best_trial = 0
    /\ best_model = -1

\* main(num_samples, max_num_epochs): a search over several trials
Init == InitWith(1..MaxSamples, 1..SearchMaxEpochs, {SampledConfig})

\* main(num_samples=1, ...), as the script calls it, for any epoch budget
InitTrial == InitWith({1}, 1..MaxNumEpochs, {SampledConfig})

\* main(num_samples=1, ...) from the point where no configuration is sampled yet
InitConfig == InitWith({1}, 1..SearchMaxEpochs, {NoConfig})

\* ------------------------------------------------------------ load_data
\* torchvision's CIFAR10(root, download=True) writes under root only when the
\* files are not there yet; otherwise it reads them.
LoadData(who) ==
    /\ dataReady' = TRUE
    /\ dataWrites' = IF dataReady THEN dataWrites ELSE dataWrites \cup {who}

\* ------------------------------------------------------------ main, before the search
\* data_dir = os.path.abspath("./data"); load_data(data_dir)
MainLoadData ==
    /\ mainpc = "start"
    /\ LoadData(0)
    /\ mainpc' = "tune"
    /\ UNCHANGED <<argVars, selVars, ckptVars, config, pc, checkpoint_dir, epoch,
                   steps, val_loss, reports, last_result, runs, splits, earlyStopped, resumes>>

\* ------------------------------------------------------------ the search space
\* RandInt with the upper end included, as random.randint has it
RandIntInclusive(low, high) == low..high

\* np.random.randint(low, high): high is exclusive
RandInt(low, high) == low..(high - 1)

\* tune.loguniform(1e-4, 1e-1), in units of 1e-4, at the decades
LogUniform == {1, 10, 100, 1000}

\* tune.choice([2, 4, 8, 16])
BatchChoice == {2, 4, 8, 16}

\* tune.run resolves the search space into the configuration of a new trial:
\* 'l1': 2**np.random.randint(2, 9), 'l2': the same, 'lr', 'batch_size'
SampleConfig(t) ==
    /\ mainpc = "tune"
    /\ config[t] = NoConfig
    /\ \E r1 \in RandInt(2, 9), r2 \in RandInt(2, 9), lr \in LogUniform,
          b \in BatchChoice :
            config' = [config EXCEPT ![t] =
                [l1 |-> 2 ^ r1, l2 |-> 2 ^ r2, lr |-> lr, batch_size |-> b]]
    /\ UNCHANGED <<mainpc, argVars, selVars, dataVars, ckptVars, pc,
                   checkpoint_dir, epoch, steps, val_loss, reports, last_result,
                   runs, splits, earlyStopped, resumes>>

\* ------------------------------------------------------------ train_cifar
\* tune.run calls train_cifar(config, data_dir=data_dir) for a new trial.
StartTrial(t) ==
    /\ mainpc = "tune"
    /\ pc[t] = "pending"
    /\ config[t] # NoConfig
    /\ pc' = [pc EXCEPT ![t] = "build"]
    /\ checkpoint_dir' = [checkpoint_dir EXCEPT ![t] = NoDir]
    /\ runs' = [runs EXCEPT ![t] = @ + 1]
    /\ UNCHANGED <<mainpc, argVars, selVars, dataVars, ckptVars, config, epoch,
                   steps, val_loss, reports, last_result, splits, earlyStopped, resumes>>

\* net = Net(...); optimizer = optim.SGD(...): freshly initialised parameters
Build(t) ==
    /\ pc[t] = "build"
    /\ steps' = [steps EXCEPT ![t] = 0]
    /\ pc' = [pc EXCEPT ![t] = "load"]
    /\ UNCHANGED <<mainpc, argVars, selVars, dataVars, ckptVars, config,
                   checkpoint_dir, epoch, val_loss, reports, last_result, runs, splits,
                   earlyStopped, resumes>>

\* LoadCheckpoint that goes on with the fresh parameters when the file is
\* not there
LoadCheckpointLenient(t) ==
    /\ pc[t] = "load"
    /\ pc' = [pc EXCEPT ![t] = "data"]
    /\ steps' = IF checkpoint_dir[t] = NoDir \/ ckpt[checkpoint_dir[t]] = NoFile
                THEN steps
                ELSE [steps EXCEPT ![t] = ckpt[checkpoint_dir[t]].steps]
    /\ UNCHANGED <<mainpc, argVars, selVars, dataVars, ckptVars, config,
                   checkpoint_dir, epoch, val_loss, reports, last_result, runs,
                   splits, earlyStopped, resumes>>

\* if checkpoint_dir: torch.load(...); net.load_state_dict(...); ...
\* torch.load raises when the file is not there, which ends the call.
LoadCheckpoint(t) ==
    /\ pc[t] = "load"
    /\ IF checkpoint_dir[t] = NoDir
       THEN /\ pc' = [pc EXCEPT ![t] = "data"]
            /\ steps' = steps
       ELSE IF ckpt[checkpoint_dir[t]] = NoFile
            THEN /\ pc' = [pc EXCEPT ![t] = "failed"]
                 /\ steps' = steps
            ELSE /\ pc' = [pc EXCEPT ![t] = "data"]
                 /\ steps' = [steps EXCEPT ![t] = ckpt[checkpoint_dir[t]].steps]
    /\ UNCHANGED <<mainpc, argVars, selVars, dataVars, ckptVars, config,
                   checkpoint_dir, epoch, val_loss, reports, last_result, runs, splits,
                   earlyStopped, resumes>>

\* load_data(data_dir); random_split(...); the two DataLoaders; epoch = 0
SplitData(t) ==
    /\ pc[t] = "data"
    /\ LoadData(t)
    /\ splits' = [splits EXCEPT ![t] = @ + 1]
    /\ epoch' = [epoch EXCEPT ![t] = 0]
    /\ pc' = [pc EXCEPT ![t] = "train"]
    /\ UNCHANGED <<mainpc, argVars, selVars, ckptVars, config, checkpoint_dir,
                   steps, val_loss, reports, last_result, runs, earlyStopped, resumes>>

\* the pass over trainloader: one optimizer step per mini-batch
Train(t) ==
    /\ pc[t] = "train"
    /\ steps' = [steps EXCEPT ![t] = @ + 1]
    /\ pc' = [pc EXCEPT ![t] = "validate"]
    /\ UNCHANGED <<mainpc, argVars, selVars, dataVars, ckptVars, config,
                   checkpoint_dir, epoch, val_loss, reports, last_result, runs, splits,
                   earlyStopped, resumes>>

\* the pass over valloader, without gradient updates
Validate(t) ==
    /\ pc[t] = "validate"
    /\ \E l \in Losses : val_loss' = [val_loss EXCEPT ![t] = l]
    /\ pc' = [pc EXCEPT ![t] = "checkpoint"]
    /\ UNCHANGED <<mainpc, argVars, selVars, dataVars, ckptVars, config,
                   checkpoint_dir, epoch, steps, reports, last_result, runs, splits,
                   earlyStopped, resumes>>

\* A checkpoint directory named by the step alone
CheckpointDirByStep(t, step) == <<1, step>>

\* tune.checkpoint_dir(step): the directory of the calling trial for that step
CheckpointDir(t, step) == <<t, step>>

\* Checkpoint without the torch.save
CheckpointNotSaved(t) ==
    /\ pc[t] = "checkpoint"
    /\ pc' = [pc EXCEPT ![t] = "report"]
    /\ UNCHANGED <<mainpc, argVars, selVars, dataVars, ckptVars, config,
                   checkpoint_dir, epoch, steps, val_loss, reports, last_result,
                   runs, splits, earlyStopped, resumes>>

\* with tune.checkpoint_dir(epoch) as checkpoint_dir: torch.save(...)
Checkpoint(t) ==
    /\ pc[t] = "checkpoint"
    /\ LET d == CheckpointDir(t, epoch[t]) IN
        /\ ckpt' = [ckpt EXCEPT ![d] = [run |-> runs[t], steps |-> steps[t]]]
        /\ ckptLog' = ckptLog \cup {[by |-> t, dir |-> d]}
        /\ latest' = [latest EXCEPT ![t] = d]
    /\ saves' = [saves EXCEPT ![t] = @ + 1]
    /\ pc' = [pc EXCEPT ![t] = "report"]
    /\ UNCHANGED <<mainpc, argVars, selVars, dataVars, config, checkpoint_dir,
                   epoch, steps, val_loss, reports, last_result, runs, splits, earlyStopped,
                   resumes>>

\* tune.report(loss=..., accuracy=...): the call blocks until the scheduler
\* has decided on the result.
Report(t) ==
    /\ pc[t] = "report"
    /\ reports' = [reports EXCEPT ![t] = Append(@,
            [epoch |-> epoch[t], steps |-> steps[t], run |-> runs[t]])]
    /\ last_result' = [last_result EXCEPT ![t] = val_loss[t]]
    /\ pc' = [pc EXCEPT ![t] = "reported"]
    /\ UNCHANGED <<mainpc, argVars, selVars, dataVars, ckptVars, config,
                   checkpoint_dir, epoch, steps, val_loss, runs, splits,
                   earlyStopped, resumes>>

\* ------------------------------------------------------------ the scheduler
\* A scheduler without a grace period: it may stop a trial that has not
\* reported yet
CanStopNoGrace(t) == pc[t] \in {"pending", "reported"}

\* ASHAScheduler(max_t=max_num_epochs, grace_period=1): a result at or past
\* max_t stops the trial; below max_t the trial may be stopped at a rung, and
\* the first rung is at grace_period.  Which trials a rung cuts depends on the
\* losses of the others; any outcome is allowed here.
CanStop(t) == pc[t] = "reported" /\ Iter(t) >= grace_period

\* A scheduler that stops a trial wherever the trial is in its epoch
StopAnywhere(t) ==
    /\ pc[t] \in {"train", "validate", "checkpoint", "report", "reported"}
    /\ pc' = [pc EXCEPT ![t] = "terminated"]
    /\ earlyStopped' = [earlyStopped EXCEPT ![t] = Iter(t) < max_num_epochs]
    /\ UNCHANGED <<mainpc, argVars, selVars, dataVars, ckptVars, config,
                   checkpoint_dir, epoch, steps, val_loss, reports, last_result,
                   runs, splits, resumes>>

\* CONTINUE: tune.report returns; the loop goes on, or ends after range(10)
\* (print("Finished Training")).
Continue(t) ==
    /\ pc[t] = "reported"
    /\ Iter(t) < max_num_epochs
    /\ IF epoch[t] + 1 < Epochs
       THEN /\ epoch' = [epoch EXCEPT ![t] = @ + 1]
            /\ pc' = [pc EXCEPT ![t] = "train"]
       ELSE /\ epoch' = epoch
            /\ pc' = [pc EXCEPT ![t] = "finished"]
    /\ UNCHANGED <<mainpc, argVars, selVars, dataVars, ckptVars, config,
                   checkpoint_dir, steps, val_loss, reports, last_result, runs, splits,
                   earlyStopped, resumes>>

\* STOP: the trial ends where it is.
Stop(t) ==
    /\ CanStop(t)
    /\ pc' = [pc EXCEPT ![t] = "terminated"]
    /\ earlyStopped' = [earlyStopped EXCEPT ![t] = Iter(t) < max_num_epochs]
    /\ UNCHANGED <<mainpc, argVars, selVars, dataVars, ckptVars, config,
                   checkpoint_dir, epoch, steps, val_loss, reports, last_result, runs, splits,
                   resumes>>

\* PAUSE: the trial is taken off its worker, to be restored later.
Pause(t) ==
    /\ pc[t] = "reported"
    /\ Iter(t) < max_num_epochs
    /\ resumes < MaxResumes
    /\ pc' = [pc EXCEPT ![t] = "paused"]
    /\ resumes' = resumes + 1
    /\ UNCHANGED <<mainpc, argVars, selVars, dataVars, ckptVars, config,
                   checkpoint_dir, epoch, steps, val_loss, reports, last_result, runs, splits,
                   earlyStopped>>

\* A restore: train_cifar(config, checkpoint_dir=d, data_dir=data_dir), d one
\* of the trial's checkpoint directories, whether or not its file is there.
Resume(t, d) ==
    /\ pc[t] = "paused"
    /\ d[1] = t
    /\ checkpoint_dir' = [checkpoint_dir EXCEPT ![t] = d]
    /\ runs' = [runs EXCEPT ![t] = @ + 1]
    /\ pc' = [pc EXCEPT ![t] = "build"]
    /\ UNCHANGED <<mainpc, argVars, selVars, dataVars, ckptVars, config, epoch,
                   steps, val_loss, reports, last_result, splits, earlyStopped, resumes>>

\* ------------------------------------------------------------ main, after the search
\* Better under mode "max"
BetterMax(a, b) == a > b

\* mode "min": the smaller loss is the better one
Better(a, b) == a < b

\* result.get_best_trial("loss", "min", "last"): among the trials that have
\* reported, the one whose last loss no other beats; the first such in the
\* order of the trials.
BestTrial ==
    LET have == {t \in Trials : Len(reports[t]) > 0}
        top == {t \in have : \A u \in have : ~Better(last_result[u], last_result[t])}
    IN  IF top = {} THEN 0
        ELSE CHOOSE t \in top : \A u \in top : t <= u

\* tune.run raises when a trial has ended in an error: main ends there.
SearchFails ==
    /\ mainpc = "tune"
    /\ \A t \in Trials : pc[t] \in Terminal
    /\ \E t \in Trials : pc[t] = "failed"
    /\ mainpc' = "failed"
    /\ UNCHANGED <<argVars, selVars, dataVars, ckptVars, config, pc,
                   checkpoint_dir, epoch, steps, val_loss, reports, last_result,
                   runs, splits, earlyStopped, resumes>>

\* tune.run returns when every trial has ended, none of them in an error.
SelectBest ==
    /\ mainpc = "tune"
    /\ \A t \in Trials : pc[t] \in Terminal \ {"failed"}
    /\ best_trial' = BestTrial
    /\ mainpc' = "selected"
    /\ UNCHANGED <<argVars, dataVars, ckptVars, config, pc, checkpoint_dir, epoch,
                   steps, val_loss, reports, last_result, runs, splits, earlyStopped, resumes,
                   best_model>>

\* best_checkpoint_dir = best_trial.checkpoint.dir_or_data; torch.load(...);
\* best_trained_model.load_state_dict(model_state); test_accuracy(...)
LoadBest ==
    /\ mainpc = "selected"
    /\ IF best_trial = 0 \/ ckpt[latest[best_trial]] = NoFile
       THEN /\ mainpc' = "failed"
            /\ best_model' = best_model
       ELSE /\ mainpc' = "done"
            /\ best_model' = ckpt[latest[best_trial]].steps
    /\ UNCHANGED <<argVars, dataVars, ckptVars, config, pc, checkpoint_dir, epoch,
                   steps, val_loss, reports, last_result, runs, splits, earlyStopped, resumes,
                   best_trial>>

\* ------------------------------------------------------------ specifications
Next ==
    \/ MainLoadData
    \/ \E t \in Trials : StartTrial(t)
    \/ \E t \in Trials : Build(t)
    \/ \E t \in Trials : LoadCheckpoint(t)
    \/ \E t \in Trials : SplitData(t)
    \/ \E t \in Trials : Train(t)
    \/ \E t \in Trials : Validate(t)
    \/ \E t \in Trials : Checkpoint(t)
    \/ \E t \in Trials : Report(t)
    \/ \E t \in Trials : Continue(t)
    \/ \E t \in Trials : Stop(t)
    \/ SelectBest
    \/ LoadBest

\* The search as main runs it: ASHA continues or stops a trial, and tune.run
\* is given no restore, so train_cifar is always called without a checkpoint.
Spec == Init /\ [][Next]_vars

\* One trial, with train_cifar's checkpoint_dir argument in use: the trial
\* may be paused on a result and train_cifar called again to restore it.
NextTrial ==
    \/ Next
    \/ SearchFails
    \/ \E t \in Trials : Pause(t)
    \/ \E t \in Trials : \E d \in Dirs : Resume(t, d)

SpecTrial == InitTrial /\ [][NextTrial]_vars

\* One trial, from the sampling of its configuration on.
NextConfig ==
    \/ Next
    \/ \E t \in Trials : SampleConfig(t)

SpecConfig == InitConfig /\ [][NextConfig]_vars

\* ------------------------------------------------------------ properties
Min(a, b) == IF a < b THEN a ELSE b

Last(t) == reports[t][Len(reports[t])]

Over(t) == pc[t] \in {"finished", "terminated"}

\* C1: a trial the scheduler never stops below max_t, run once, ends after
\* exactly max_num_epochs epochs, with that many reports.
C1_RunsMaxNumEpochs ==
    \A t \in Trials :
        (Over(t) /\ ~earlyStopped[t] /\ runs[t] = 1)
            => Len(reports[t]) = max_num_epochs

\* What the loop does instead: range(10) caps the epochs whatever max_t is.
C1_RunsAtMostTen ==
    \A t \in Trials :
        (Over(t) /\ ~earlyStopped[t] /\ runs[t] = 1)
            => Len(reports[t]) = Min(max_num_epochs, Epochs)

\* C2: within a trial the epoch index of the reports is strictly increasing,
\* across resumes too.
C2_EpochStrictlyIncreasing ==
    \A t \in Trials : \A i, j \in 1..Len(reports[t]) :
        i < j => reports[t][i].epoch < reports[t][j].epoch

\* C3: a trial resumed from a checkpoint reports what the uninterrupted run
\* reports: its i-th result comes from epoch i-1 (the data order of that
\* epoch under the seed) and from parameters trained i times, and it ends
\* with as many results as the uninterrupted run.
C3_ResumeReproducesRun ==
    \A t \in Trials :
        /\ \A i \in 1..Len(reports[t]) :
              reports[t][i].epoch = i - 1 /\ reports[t][i].steps = i
        /\ (Over(t) /\ ~earlyStopped[t])
              => Len(reports[t]) = Min(max_num_epochs, Epochs)

\* The uninterrupted run that C3 compares with: a trial run once does report
\* that way.
UninterruptedRun ==
    \A t \in Trials : runs[t] = 1 =>
        /\ \A i \in 1..Len(reports[t]) :
              reports[t][i].epoch = i - 1 /\ reports[t][i].steps = i
        /\ (Over(t) /\ ~earlyStopped[t])
              => Len(reports[t]) = Min(max_num_epochs, Epochs)

\* C4: every epoch writes one checkpoint and then emits one report: the saves
\* are the reports, plus the one just written when the report is still to
\* come; every reported epoch has its checkpoint file; and the last result's
\* checkpoint holds the parameters that result came from.
C4_CheckpointBeforeReport ==
    /\ \A t \in Trials :
        /\ saves[t] = Len(reports[t]) + (IF pc[t] = "report" THEN 1 ELSE 0)
        /\ \A i \in 1..Len(reports[t]) :
              ckpt[<<t, reports[t][i].epoch>>] # NoFile
        /\ pc[t] = "report" =>
              /\ latest[t] = <<t, epoch[t]>>
              /\ ckpt[latest[t]] = [run |-> runs[t], steps |-> steps[t]]
        /\ (pc[t] # "report" /\ Len(reports[t]) > 0) =>
              /\ latest[t] = <<t, Last(t).epoch>>
              /\ ckpt[latest[t]] = [run |-> Last(t).run, steps |-> Last(t).steps]
        /\ (mainpc = "done" /\ t = best_trial) => best_model = Last(t).steps
    /\ mainpc = "failed" => \E t \in Trials : pc[t] = "failed"

C4_Witness ==
    \E t \in Trials :
        /\ pc[t] = "terminated"
        /\ runs[t] = 2
        /\ Len(reports[t]) = 3
        /\ mainpc = "done"
        /\ best_model = Last(t).steps

\* C5: a trial is stopped or paused only at the end of an epoch: its
\* parameters are those of its last report and of its last checkpoint, and
\* no save or training pass lies beyond that report.
C5_StoppedAtEpochBoundary ==
    \A t \in Trials :
        pc[t] \in {"terminated", "paused"} =>
            /\ Len(reports[t]) > 0
            /\ Last(t) = [epoch |-> epoch[t], steps |-> steps[t], run |-> runs[t]]
            /\ saves[t] = Len(reports[t])
            /\ ckpt[latest[t]].steps = steps[t]

C5_Witness ==
    \E t \in Trials :
        pc[t] = "terminated" /\ earlyStopped[t] /\ Len(reports[t]) = 2

\* C6: when the search is over, num_samples trials were started, each has
\* reported, and the best trial is one trial whose last loss none undercuts.
C6_BestIsMinimal ==
    mainpc \in {"selected", "done"} =>
        /\ Cardinality({t \in Trials : runs[t] > 0}) = num_samples
        /\ \A t \in Trials : Len(reports[t]) >= 1
        /\ best_trial \in Trials
        /\ \A u \in Trials : last_result[best_trial] <= last_result[u]

C6_Witness ==
    /\ mainpc = "selected"
    /\ num_samples = 2
    /\ last_result[1] = 2
    /\ last_result[2] = 1
    /\ best_trial = 2

\* C7: a trial the scheduler has stopped has reported grace_period epochs,
\* and so has the trial selected as best.
C7_GracePeriod ==
    /\ \A t \in Trials : pc[t] = "terminated" => Iter(t) >= grace_period
    /\ best_trial # 0 => Iter(best_trial) >= grace_period

C7_Witness ==
    /\ best_trial = 1
    /\ num_samples = 2
    /\ earlyStopped[1]
    /\ Iter(1) = grace_period
    /\ last_result[1] < last_result[2]

\* C8: a resume whose checkpoint file is not there fails before anything
\* else: this call made no split, no checkpoint and no report.
C8_FailFast ==
    \A t \in Trials :
        (checkpoint_dir[t] # NoDir /\ ckpt[checkpoint_dir[t]] = NoFile) =>
            /\ pc[t] \in {"build", "load", "failed"}
            /\ splits[t] = runs[t] - 1
            /\ saves[t] = Len(reports[t])
            /\ \A i \in 1..Len(reports[t]) : reports[t][i].run < runs[t]
            /\ \A d \in Dirs : ckpt[d].run < runs[t]

C8_Witness ==
    \E t \in Trials :
        pc[t] = "failed" /\ runs[t] = 2 /\ Len(reports[t]) = 2

\* C9: no directory is written by two trials, each is the writer's own, and
\* under data_dir only the driver writes, before any trial starts.
C9_NoSharedWrites ==
    /\ \A w1, w2 \in ckptLog : w1.dir = w2.dir => w1.by = w2.by
    /\ \A w \in ckptLog : w.dir[1] = w.by
    /\ dataWrites \subseteq {0}
    /\ \A t \in Trials : pc[t] # "pending" => dataReady

C9_Witness ==
    \E w1, w2 \in ckptLog :
        w1.by # w2.by /\ w1.dir[2] = w2.dir[2] /\ dataWrites = {0}

PowersOfTwo == {4, 8, 16, 32, 64, 128, 256}

\* C10: a sampled configuration has l1 and l2 among 4, 8, ..., 256 and
\* batch_size among 2, 4, 8, 16.
C10_ConfigInDomain ==
    \A t \in Trials :
        config[t] # NoConfig =>
            /\ config[t].l1 \in PowersOfTwo
            /\ config[t].l2 \in PowersOfTwo
            /\ config[t].batch_size \in {2, 4, 8, 16}

C10_Witness ==
    \E t \in Trials :
        /\ config[t].l1 = 256
        /\ config[t].l2 = 4
        /\ config[t].batch_size = 16
        /\ pc[t] = "terminated"

====
